---- MODULE Spec2Model ----
(***************************************************************************)
(* Plan cache (src/src/services/cache.ts), plan resolution and refinement  *)
(* (src/src/agents/planner.agent.ts) and the orchestration pipeline        *)
(* (src/src/services/llm.ts, class Orchestrator) of jarvis-home.           *)
(*                                                                         *)
(* Abstractions, stated once:                                              *)
(*  - successRate is kept in tenths (10 = 1.0); IEEE rounding drift of the *)
(*    repeated +0.1 / -0.2 is not represented.                             *)
(*  - Date.now() is the integer clock `now`; ttl is in the same unit.      *)
(*  - md5 is an injective function of the serialized text: the digest of a *)
(*    normalized snapshot is the normalized tuple itself.  Whether the 32  *)
(*    hex characters of a digest happen to read as a JSON number is a      *)
(*    property of the digest the model cannot compute: jsonDigests is the  *)
(*    set of digests that do, chosen once.                                 *)
(*  - a description string is the sequence of its parts; a template        *)
(*    wrapping a description d in a prefix and a suffix concatenates parts *)
(*    around d; the Chinese literals are named by ASCII tokens.            *)
(*  - temperature and humidity are in hundredths; undefined is 0, as       *)
(*    `context.temperature || 0` makes it.                                 *)
(*  - the pipeline is driven by a client that makes its next request when  *)
(*    the previous call of processUserIntent has returned; runs holds the  *)
(*    locals of the calls: one call, or two calls that interleave at their *)
(*    awaits in SpecDuo and SpecStats.                                     *)
(***************************************************************************)
EXTENDS Integers, Sequences, FiniteSets, TLC

VARIABLES config, cache, now, jsonDigests,
          refined, refineContext, refineCount,
          services, world, runs, stats, served,
          pair,
          requestCounts, limiter, handled

cacheVars == <<config, cache, now, jsonDigests>>

refineVars == <<refined, refineContext, refineCount>>

pipeVars == <<services, world, runs, stats, served>>

\* the two snapshots a client of the cache stores and asks under
keyVars == <<pair>>

\* the request counts the rate limiter keeps per address, the arguments it
\* was made with, and the requests it has handled
limitVars == <<requestCounts, limiter, handled>>

vars == <<cacheVars, refineVars, pipeVars, keyVars, limitVars>>

\* no request has passed through the rate limiter, made with its defaults
\* (10 requests a window of 60 seconds)
LimiterIdle ==
  /\ requestCounts = <<>>
  /\ limiter = [limit |-> 10, window |-> 60]
  /\ handled = <<>>

(* ------------------------------ bounds --------------------------------- *)
MaxCapacity == 2
MaxTime == 1
MaxUsage == 2
MaxRefine == 2
MaxRequests == 3

(* --------------------------- program constants ------------------------- *)
RateScale == 10
InitialRate == 10
SuccessStep == 1
FailureStep == 2
DeleteBelow == 3
FuzzyRateAbove == 8

(* ------------------------------ data ----------------------------------- *)
Strategies == {"none", "simple", "context_aware"}

CacheIntents == {"sleep", "go_out"}

TimeOfDay == {"morning", "afternoon", "evening", "night"}

Dev(id, st) == [entityId |-> id, state |-> st]

\* the human-readable name of a device
TargetName(id) ==
  CASE id = "light.bathroom" -> "bathroom light"
    [] id = "light.living_room" -> "living room light"
    [] id = "switch.all_lights" -> "all lights"
    [] id = "switch.bathroom_heater" -> "bathroom heater"
    [] id = "switch.water_heater" -> "gas water heater"
    [] OTHER -> id

Step(svc, id, desc) ==
  [service |-> svc, entityId |-> id, targetName |-> TargetName(id),
   description |-> desc]

SnapEveningOn ==
  [timeOfDay |-> "evening", presence |-> TRUE, temperature |-> 2200,
   humidity |-> 6000, devices |-> <<Dev("light.living_room", "on")>>]

SnapEveningOff ==
  [timeOfDay |-> "evening", presence |-> TRUE, temperature |-> 2200,
   humidity |-> 6000, devices |-> <<Dev("light.living_room", "off")>>]

SnapNightNone ==
  [timeOfDay |-> "night", presence |-> FALSE, temperature |-> 0,
   humidity |-> 0, devices |-> <<>>]

Snapshots == {SnapEveningOn, SnapEveningOff, SnapNightNone}

\* an optional argument `context?: ContextState`: <<>> is undefined
NoContext == <<>>

Some(v) == <<v>>

ContextArgs == {NoContext} \cup {Some(s) : s \in Snapshots}

\* the (intent, context) pairs a client of the cache stores under
StoreArgs ==
  {<<"sleep", NoContext>>, <<"sleep", Some(SnapEveningOn)>>,
   <<"go_out", Some(SnapEveningOn)>>}

\* the (intent, context) pairs a client of the cache asks for
QueryArgs == StoreArgs \cup {<<"sleep", Some(SnapNightNone)>>}

(* ------------------------ computeContextHash --------------------------- *)
EntityRank(id) ==
  CASE id = "light.bathroom" -> 1
    [] id = "light.living_room" -> 2
    [] id = "switch.all_lights" -> 3
    [] id = "switch.bathroom_heater" -> 4
    [] id = "switch.water_heater" -> 5
    [] OTHER -> 6

\* Array.prototype.sort is stable: records with equal ids keep their order
RECURSIVE InsertById(_, _)
InsertById(d, s) ==
  IF s = <<>> THEN <<d>>
  ELSE IF EntityRank(d.id) <= EntityRank(Head(s).id) THEN <<d>> \o s
       ELSE <<Head(s)>> \o InsertById(d, Tail(s))

RECURSIVE SortById(_)
SortById(s) ==
  IF s = <<>> THEN <<>>
  ELSE InsertById(Head(s), SortById(Tail(s)))

\* Math.round(x * 10) / 10 on a value in hundredths, result in hundredths
RoundTenth(h) == ((h + 5) \div 10) * 10

Md5(text) == text

computeContextHashUnrounded(context) ==
  Md5(<<context.timeOfDay, context.presence,
        context.temperature, context.humidity,
        SortById([i \in 1..Len(context.devices) |->
                    [id |-> context.devices[i].entityId,
                     state |-> context.devices[i].state]])>>)

computeContextHashUnsorted(context) ==
  Md5(<<context.timeOfDay, context.presence,
        RoundTenth(context.temperature), RoundTenth(context.humidity),
        [i \in 1..Len(context.devices) |->
           [id |-> context.devices[i].entityId,
            state |-> context.devices[i].state]]>>)

computeContextHash(context) ==
  Md5(<<context.timeOfDay, context.presence,
        RoundTenth(context.temperature), RoundTenth(context.humidity),
        SortById([i \in 1..Len(context.devices) |->
                    [id |-> context.devices[i].entityId,
                     state |-> context.devices[i].state]])>>)

SimpleHash == <<"simple">>

NoHash == <<>>

Digests == {computeContextHash(s) : s \in Snapshots}

(* -------------------------- generateCacheKey --------------------------- *)
Key(kind, intent, hash) == [kind |-> kind, intent |-> intent, hash |-> hash]

generateCacheKeyByContext(intent, ctx) ==
  IF ctx = NoContext
    THEN Key("simple", intent, NoHash)
    ELSE IF config.strategy \in {"simple", "context_aware"}
      THEN Key("context", intent, computeContextHash(ctx[1]))
      ELSE Key("default", intent, NoHash)

generateCacheKey(intent, ctx) ==
  IF ctx = NoContext \/ config.strategy = "simple"
    THEN Key("simple", intent, NoHash)
    ELSE IF config.strategy = "context_aware"
      THEN Key("context", intent, computeContextHash(ctx[1]))
      ELSE Key("default", intent, NoHash)

(* ------------------------- the Map<string, CacheEntry> ----------------- *)
\* cache is the sequence of entries in insertion order (the iteration order
\* of a JavaScript Map); keys are unique.
Keys(c) == {c[i].cacheKey : i \in 1..Len(c)}

Has(c, key) == key \in Keys(c)

IndexOf(c, key) == CHOOSE i \in 1..Len(c) : c[i].cacheKey = key

Get(c, key) == c[IndexOf(c, key)]

\* Map.delete
MapDelete(c, key) == SelectSeq(c, LAMBDA e : e.cacheKey # key)

\* Map.set: an existing key keeps its position
MapSet(c, key, e) ==
  IF Has(c, key) THEN [c EXCEPT ![IndexOf(c, key)] = e]
  ELSE Append(c, e)

(* ------------------------------ isExpired ------------------------------ *)
isExpired(entry, t) == (t - entry.lastUsed) > config.ttl

(* --------------------------- evictLeastUseful -------------------------- *)
\* score(a) < score(b) with score = usageCount * successRate / (1 + age),
\* cross-multiplied (both denominators are positive)
ScoreLess(a, b, t) ==
  a.usageCount * a.successRate * (1 + (t - b.lastUsed))
    < b.usageCount * b.successRate * (1 + (t - a.lastUsed))

\* the loop keeps the first entry with a strictly smaller score
LeastUseful(c, t) ==
  CHOOSE i \in 1..Len(c) :
    /\ \A j \in 1..Len(c) : ~ScoreLess(c[j], c[i], t)
    /\ \A j \in 1..(i - 1) : ScoreLess(c[i], c[j], t)

evictLeastUseful(c, t) ==
  IF Len(c) = 0 THEN c
  ELSE MapDelete(c, c[LeastUseful(c, t)].cacheKey)

\* The scan calls Date.now() once for every entry, and the clock may advance
\* between two calls: reads[i] is the reading taken for the i-th entry.
\* evictLeastUseful(c, t) above is the scan during which the clock stays at t.
ScoreLessAtIgnoringRate(a, ta, b, tb) ==
  a.usageCount * (1 + (tb - b.lastUsed))
    < b.usageCount * (1 + (ta - a.lastUsed))

ScoreLessAt(a, ta, b, tb) ==
  a.usageCount * a.successRate * (1 + (tb - b.lastUsed))
    < b.usageCount * b.successRate * (1 + (ta - a.lastUsed))

LeastUsefulAt(c, reads) ==
  CHOOSE i \in 1..Len(c) :
    /\ \A j \in 1..Len(c) : ~ScoreLessAt(c[j], reads[j], c[i], reads[i])
    /\ \A j \in 1..(i - 1) : ScoreLessAt(c[i], reads[i], c[j], reads[j])

evictLeastUsefulAt(c, reads) ==
  IF Len(c) = 0 THEN c
  ELSE MapDelete(c, c[LeastUsefulAt(c, reads)].cacheKey)

(* -------------------------------- store -------------------------------- *)
NewEntry(key, intent, plan, ctx, t) ==
  [cacheKey |-> key, intent |-> intent, plan |-> plan,
   contextHash |-> IF ctx = NoContext THEN SimpleHash
                   ELSE computeContextHash(ctx[1]),
   lastUsed |-> t, usageCount |-> 1, successRate |-> InitialRate]

storeIgnoreCacheable(c, intent, plan, ctx, t) ==
  IF config.strategy = "none" THEN c
  ELSE LET c1 == IF Len(c) >= config.maxSize THEN evictLeastUseful(c, t) ELSE c
           key == generateCacheKey(intent, ctx)
       IN MapSet(c1, key, NewEntry(key, intent, plan, ctx, t))

storeIgnoreStrategy(c, intent, plan, ctx, t) ==
  IF ~plan.cacheable THEN c
  ELSE LET c1 == IF Len(c) >= config.maxSize THEN evictLeastUseful(c, t) ELSE c
           key == generateCacheKey(intent, ctx)
       IN MapSet(c1, key, NewEntry(key, intent, plan, ctx, t))

storeEvictAfterInsert(c, intent, plan, ctx, t) ==
  IF config.strategy = "none" \/ ~plan.cacheable THEN c
  ELSE LET key == generateCacheKey(intent, ctx)
           c1 == MapSet(c, key, NewEntry(key, intent, plan, ctx, t))
       IN IF Len(c) >= config.maxSize THEN evictLeastUseful(c1, t + 1) ELSE c1

store(c, intent, plan, ctx, t) ==
  IF config.strategy = "none" \/ ~plan.cacheable THEN c
  ELSE LET c1 == IF Len(c) >= config.maxSize THEN evictLeastUseful(c, t) ELSE c
           key == generateCacheKey(intent, ctx)
       IN MapSet(c1, key, NewEntry(key, intent, plan, ctx, t))

\* store with the clock readings of its scan, and t the reading of
\* `new Date()` for the new entry
storeAt(c, intent, plan, ctx, reads, t) ==
  IF config.strategy = "none" \/ ~plan.cacheable THEN c
  ELSE LET c1 == IF Len(c) >= config.maxSize THEN evictLeastUsefulAt(c, reads)
                 ELSE c
           key == generateCacheKey(intent, ctx)
       IN MapSet(c1, key, NewEntry(key, intent, plan, ctx, t))

(* ---------------------------- findFuzzyMatch --------------------------- *)
\* JSON.parse(entry.contextHash) throws a SyntaxError unless the text is JSON:
\* "simple" is not, and a hex digest is only when it reads as a number
JsonParseThrows(hash) == hash = SimpleHash \/ hash \notin jsonDigests

\* key.includes(targetTimeOfDay): a key is "simple:<intent>" or
\* "context:<intent>:<32 hex digits>"; no IntentType label and no hex string
\* contains "morning", "afternoon", "evening" or "night"
LabelIncludes(label, tod) == FALSE

KeyIncludes(key, tod) == LabelIncludes(key.intent, tod)

\* result of the scan from position i: [kind: "raise" | "none" | "found", at]
RECURSIVE FuzzyScan(_, _, _, _)
FuzzyScan(c, i, intent, tod) ==
  IF i > Len(c) THEN [kind |-> "none", at |-> 0]
  ELSE IF c[i].intent # intent THEN FuzzyScan(c, i + 1, intent, tod)
  ELSE IF JsonParseThrows(c[i].contextHash) THEN [kind |-> "raise", at |-> i]
  ELSE IF KeyIncludes(c[i].cacheKey, tod) \/ c[i].successRate > FuzzyRateAbove
    THEN [kind |-> "found", at |-> i]
  ELSE FuzzyScan(c, i + 1, intent, tod)

findFuzzyMatch(c, intent, context) == FuzzyScan(c, 1, intent, context.timeOfDay)

(* -------------------------------- query -------------------------------- *)
Miss(reason) == [outcome |-> "miss", entry |-> <<>>, reason |-> reason]

Hit(e) == [outcome |-> "hit", entry |-> <<e>>, reason |-> ""]

Raised == [outcome |-> "raise", entry |-> <<>>, reason |-> "SyntaxError"]

\* the tail of query once a candidate entry (at index i) is known
QueryFound(c, key, i, t) ==
  IF isExpired(c[i], t)
    THEN [cache |-> MapDelete(c, key), res |-> Miss("expired")]
    ELSE LET e == [c[i] EXCEPT !.usageCount = @ + 1, !.lastUsed = t]
         IN [cache |-> [c EXCEPT ![i] = e], res |-> Hit(e)]

query(c, intent, ctx, t) ==
  IF config.strategy = "none" THEN [cache |-> c, res |-> Miss("disabled")]
  ELSE LET key == generateCacheKey(intent, ctx)
       IN IF Has(c, key) THEN QueryFound(c, key, IndexOf(c, key), t)
          ELSE IF config.strategy = "context_aware" /\ ctx # NoContext
            THEN LET f == findFuzzyMatch(c, intent, ctx[1])
                 IN CASE f.kind = "raise" -> [cache |-> c, res |-> Raised]
                      [] f.kind = "found" -> QueryFound(c, key, f.at, t)
                      [] OTHER -> [cache |-> c, res |-> Miss("not found")]
            ELSE [cache |-> c, res |-> Miss("not found")]

(* --------------------------- updateSuccessRate ------------------------- *)
Min(a, b) == IF a < b THEN a ELSE b

Max(a, b) == IF a > b THEN a ELSE b

NewRate(rate, success) ==
  IF success THEN Min(RateScale, rate + SuccessStep)
  ELSE Max(0, rate - FailureStep)

updateSuccessRateNeverDelete(c, cacheKey, success) ==
  IF ~Has(c, cacheKey) THEN c
  ELSE [c EXCEPT ![IndexOf(c, cacheKey)].successRate =
                   NewRate(c[IndexOf(c, cacheKey)].successRate, success)]

updateSuccessRateDeleteAtThreshold(c, cacheKey, success) ==
  IF ~Has(c, cacheKey) THEN c
  ELSE LET i == IndexOf(c, cacheKey)
           newRate == NewRate(c[i].successRate, success)
       IN IF newRate <= DeleteBelow THEN MapDelete(c, cacheKey)
          ELSE [c EXCEPT ![i].successRate = newRate]

updateSuccessRate(c, cacheKey, success) ==
  IF ~Has(c, cacheKey) THEN c
  ELSE LET i == IndexOf(c, cacheKey)
           newRate == NewRate(c[i].successRate, success)
       IN IF newRate < DeleteBelow THEN MapDelete(c, cacheKey)
          ELSE [c EXCEPT ![i].successRate = newRate]

(* ------------------------------- plans --------------------------------- *)
PlanId(tag) == Key("plan", tag, NoHash)

NoPlanId == Key("", "", NoHash)

NoKey == Key("", "", NoHash)

Plan(id, intent, steps, conf, cacheable) ==
  [planId |-> id, intent |-> intent, steps |-> steps, confidence |-> conf,
   cacheable |-> cacheable]

StepLivingOff ==
  Step("light.turn_off", "light.living_room", <<"turn off living room light">>)

StepLivingOn ==
  Step("light.turn_on", "light.living_room", <<"turn on living room light">>)

PlanSleepA == Plan(PlanId("sleep_1"), "sleep", <<StepLivingOff>>, 8, TRUE)

PlanSleepB == Plan(PlanId("sleep_2"), "sleep", <<>>, 9, TRUE)

PlanGoOut == Plan(PlanId("go_out_1"), "go_out", <<StepLivingOff>>, 8, TRUE)

PlanStatus == Plan(PlanId("get_status_1"), "get_status", <<>>, 5, FALSE)

\* the store calls a client of the cache makes: <<intent, context, plan>>
StoreCalls ==
  {<<"sleep", NoContext, PlanSleepA>>, <<"sleep", NoContext, PlanSleepB>>,
   <<"sleep", NoContext, PlanStatus>>,
   <<"sleep", Some(SnapEveningOn), PlanSleepA>>,
   <<"go_out", Some(SnapEveningOn), PlanGoOut>>}

(* --------------------- validateAndRefinePlan --------------------------- *)
\* the literal parts of the description templates
AlreadyOn == "[already on]"

AlreadyOff == "[already off]"

Skipped == "(skipped)"

DeviceMissing == "[warning: device missing]"

\* description.includes of the skip marker / of the warning marker
IncludesSkip(desc) == \E i \in 1..Len(desc) : desc[i] = Skipped

IncludesWarning(desc) == \E i \in 1..Len(desc) : desc[i] = DeviceMissing

\* step.service.includes("turn_on") / includes("turn_off")
IsTurnOn(service) == service \in {"light.turn_on", "switch.turn_on"}

IsTurnOff(service) == service \in {"light.turn_off", "switch.turn_off"}

\* context.devices.find(d => d.entityId === id): index of the first, or 0
FindDevice(context, id) ==
  IF \E i \in 1..Len(context.devices) : context.devices[i].entityId = id
    THEN CHOOSE i \in 1..Len(context.devices) :
           /\ context.devices[i].entityId = id
           /\ \A j \in 1..(i - 1) : context.devices[j].entityId # id
    ELSE 0

refineStepNoWarning(step, context) ==
  LET d == FindDevice(context, step.entityId)
  IN IF d = 0 THEN step
     ELSE IF IsTurnOn(step.service) /\ context.devices[d].state = "on"
       THEN [step EXCEPT !.description = <<AlreadyOn>> \o @ \o <<Skipped>>]
     ELSE IF IsTurnOff(step.service) /\ context.devices[d].state = "off"
       THEN [step EXCEPT !.description = <<AlreadyOff>> \o @ \o <<Skipped>>]
     ELSE step

refineStep(step, context) ==
  LET d == FindDevice(context, step.entityId)
  IN IF d = 0
       THEN [step EXCEPT !.description = <<DeviceMissing>> \o @]
     ELSE IF IsTurnOn(step.service) /\ context.devices[d].state = "on"
       THEN [step EXCEPT !.description = <<AlreadyOn>> \o @ \o <<Skipped>>]
     ELSE IF IsTurnOff(step.service) /\ context.devices[d].state = "off"
       THEN [step EXCEPT !.description = <<AlreadyOff>> \o @ \o <<Skipped>>]
     ELSE step

validateAndRefinePlanDropSkipped(plan, context) ==
  [plan EXCEPT !.steps =
     SelectSeq([i \in 1..Len(plan.steps) |-> refineStep(plan.steps[i], context)],
               LAMBDA st : ~IncludesSkip(st.description))]

validateAndRefinePlan(plan, context) ==
  [plan EXCEPT !.steps = [i \in 1..Len(plan.steps) |->
                            refineStep(plan.steps[i], context)]]

(* ----------------------- state of the orchestrator --------------------- *)
NoPlan == <<>>

\* the locals of one call of processUserIntent and of the planner call in it
IdleRun ==
  [pc |-> "idle", intent |-> "", confidence |-> 0, context |-> NoContext,
   plan |-> NoPlan, cacheHit |-> FALSE, hitKey |-> NoKey, similar |-> 0,
   generated |-> FALSE, dispatched |-> <<>>, status |-> "pending",
   haCalls |-> 0, errors |-> {}, llm |-> "none", error |-> ""]

\* a call that has returned: its locals are gone
Returned(how) == [IdleRun EXCEPT !.pc = how]

\* a call that was rejected with this error
Failed(err) == [IdleRun EXCEPT !.pc = "failed", !.error = err]

\* the calls of processUserIntent
Runs == DOMAIN runs

ZeroStats ==
  [totalRequests |-> 0, successCount |-> 0, cacheHits |-> 0, errorCount |-> 0]

\* history: the entry the latest failed cache-served requests were served
\* from, and how many of them in a row since it was stored
NotServed == [key |-> NoKey, fails |-> 0]

\* no request has been made
PipeIdle ==
  /\ services = [llm |-> TRUE, ha |-> TRUE]
  /\ world = SnapNightNone
  /\ runs = <<IdleRun>>
  /\ stats = ZeroStats
  /\ served = NotServed
  /\ pair = <<SnapNightNone, SnapNightNone>>
  /\ LimiterIdle

(* ------------------- refinement applied repeatedly --------------------- *)
StepHeaterOn ==
  Step("switch.turn_on", "switch.water_heater", <<"preheat water heater">>)

StepLivingToggle ==
  Step("light.toggle", "light.living_room", <<"toggle living room light">>)

RefineSteps == {StepLivingOff, StepLivingOn, StepHeaterOn, StepLivingToggle}

SnapHeaterOn ==
  [timeOfDay |-> "morning", presence |-> TRUE, temperature |-> 2150,
   humidity |-> 5500,
   devices |-> <<Dev("switch.water_heater", "on"),
                 Dev("light.living_room", "off")>>]

RefineContexts == Snapshots \cup {SnapHeaterOn}

\* plans as a generator hands them to refinement: up to two steps
RefineInputs ==
  {Plan(PlanId("sleep_1"), "sleep", st, 8, TRUE) :
     st \in {<<>>} \cup {<<a>> : a \in RefineSteps}
             \cup {<<a, b>> : a \in RefineSteps, b \in RefineSteps}}

InitRefine ==
  /\ refined \in RefineInputs
  /\ refineContext \in RefineContexts
  /\ refineCount = 0
  /\ config = [strategy |-> "none", ttl |-> 0, maxSize |-> 0]
  /\ jsonDigests = {}
  /\ cache = <<>>
  /\ now = 0
  /\ PipeIdle

Refine ==
  /\ refineCount < MaxRefine
  /\ refined' = validateAndRefinePlan(refined, refineContext)
  /\ refineCount' = refineCount + 1
  /\ UNCHANGED <<refineContext, cacheVars, pipeVars, keyVars, limitVars>>

NextRefine == Refine

SpecRefine == InitRefine /\ [][NextRefine]_vars

\* C8: refinement is idempotent: applying validateAndRefinePlan to its own
\* output against the same snapshot changes no step description.
C8_RefinementIdempotent ==
  [][(refineCount >= 1 /\ refineCount' = refineCount + 1)
       => refined' = refined]_vars

(* ---------------------- the cache driven directly ---------------------- *)
AllKeys == {generateCacheKey(a[1], a[2]) : a \in QueryArgs}

Configs ==
  [strategy : Strategies, ttl : {0}, maxSize : 0..MaxCapacity]

InitCache ==
  /\ config \in Configs
  /\ jsonDigests \in SUBSET {computeContextHash(SnapEveningOn)}
  /\ cache = <<>>
  /\ now = 0
  /\ refined = PlanStatus
  /\ refineContext = SnapNightNone
  /\ refineCount = 0
  /\ PipeIdle

Store(intent, plan, ctx) ==
  /\ cache' = store(cache, intent, plan, ctx, now)
  /\ UNCHANGED <<config, now, jsonDigests, refineVars, pipeVars, keyVars, limitVars>>

Query(intent, ctx) ==
  LET q == query(cache, intent, ctx, now)
  IN /\ \A i \in 1..Len(q.cache) : q.cache[i].usageCount <= MaxUsage
     /\ cache' = q.cache
     /\ UNCHANGED <<config, now, jsonDigests, refineVars, pipeVars, keyVars, limitVars>>

UpdateSuccessRate(key, success) ==
  /\ cache' = updateSuccessRate(cache, key, success)
  /\ UNCHANGED <<config, now, jsonDigests, refineVars, pipeVars, keyVars, limitVars>>

Delete(key) ==
  /\ cache' = MapDelete(cache, key)
  /\ UNCHANGED <<config, now, jsonDigests, refineVars, pipeVars, keyVars, limitVars>>

Clear ==
  /\ cache' = <<>>
  /\ UNCHANGED <<config, now, jsonDigests, refineVars, pipeVars, keyVars, limitVars>>

NextCache ==
  \/ \E a \in StoreCalls : Store(a[1], a[3], a[2])
  \/ \E a \in QueryArgs : Query(a[1], a[2])
  \/ \E k \in AllKeys, s \in BOOLEAN : UpdateSuccessRate(k, s)
  \/ \E k \in AllKeys : Delete(k)
  \/ Clear

SpecCache == InitCache /\ [][NextCache]_vars

(* ------------------------- claims on the cache ------------------------- *)
\* C1: in every reachable state the number of entries held is at most the
\* configured capacity maxSize, for every maxSize >= 0.
C1_SizeWithinCapacity == Len(cache) <= config.maxSize

\* C4: query never raises: in every reachable state of the cache every call
\* returns a hit or a miss, also in context-aware mode when the exact key is
\* absent and entries with the same intent label are held.
C4_QueryNeverRaises ==
  \A a \in QueryArgs : query(cache, a[1], a[2], now).res.outcome # "raise"

\* the time-of-day bucket a stored fingerprint was computed from, if any
FingerprintBucket(hash) == IF hash = SimpleHash THEN "" ELSE hash[1]

Qualifying(c, key) ==
  {i \in 1..Len(c) :
     /\ c[i].intent = key.intent
     /\ \/ FingerprintBucket(c[i].contextHash) = key.hash[1]
        \/ c[i].successRate > FuzzyRateAbove}

\* C5: under the context-aware strategy, when the exact key is absent, query
\* reports a hit on a same-intent entry whose fingerprint has the requested
\* time-of-day bucket or whose success rate exceeds 0.8, reports a miss when
\* no same-intent entry qualifies, and never returns another intent's entry.
C5_FuzzyAcceptance ==
  \A a \in QueryArgs :
    LET key == generateCacheKey(a[1], a[2])
        res == query(cache, a[1], a[2], now).res
    IN (config.strategy = "context_aware" /\ key.kind = "context"
          /\ ~Has(cache, key))
         => IF Qualifying(cache, key) # {}
              THEN /\ res.outcome = "hit"
                   /\ \E i \in Qualifying(cache, key) :
                        cache[i].cacheKey = res.entry[1].cacheKey
              ELSE res.outcome = "miss"

\* C6: a store of a cacheable plan under a non-disabled strategy followed
\* immediately by a query with the identical intent and snapshot reports a
\* hit whose entry holds that plan, whether or not the store had to evict.
C6_StoreThenQueryHits ==
  \A a \in StoreCalls :
    (a[3].cacheable /\ config.strategy # "none")
      => LET res == query(store(cache, a[1], a[3], a[2], now),
                          a[1], a[2], now).res
         IN /\ res.outcome = "hit"
            /\ res.entry[1].cacheKey = generateCacheKey(a[1], a[2])
            /\ res.entry[1].plan = a[3]

\* a query has hit an entry once since its store, in a cache filled to its
\* capacity of at least two entries: a further store has to evict
C6_Witness ==
  /\ config.maxSize >= 2
  /\ Len(cache) = config.maxSize
  /\ \E i \in 1..Len(cache) : cache[i].usageCount = 2

\* C10: after updateSuccessRate has driven an entry's rate below 0.3, the
\* next query with the intent and snapshot of that key reports a miss,
\* whatever other entries the cache holds.
C10_QueryAfterCollapseMisses ==
  \A a \in QueryArgs :
    LET key == generateCacheKey(a[1], a[2])
        c1 == updateSuccessRate(cache, key, FALSE)
    IN (Has(cache, key) /\ ~Has(c1, key))
         => query(c1, a[1], a[2], now).res.outcome = "miss"

RECURSIVE StoreAll(_, _, _)
StoreAll(c, calls, t) ==
  IF calls = <<>> THEN c
  ELSE StoreAll(store(c, Head(calls)[1], Head(calls)[3], Head(calls)[2], t),
                Tail(calls), t)

CacheableCalls == {a \in StoreCalls : a[3].cacheable}

CallKey(a) == generateCacheKey(a[1], a[2])

\* up to three stores of cacheable plans under pairwise distinct keys
DistinctKeyFills ==
  {<<a>> : a \in CacheableCalls}
    \cup {f \in {<<a, b>> : a \in CacheableCalls, b \in CacheableCalls} :
            CallKey(f[1]) # CallKey(f[2])}
    \cup {f \in {<<a, b, d>> : a \in CacheableCalls, b \in CacheableCalls,
                                d \in CacheableCalls} :
            Cardinality({CallKey(f[1]), CallKey(f[2]), CallKey(f[3])}) = 3}

\* C15: a store removes at most one existing entry by eviction, and only
\* when the cache is at capacity; and after k stores of cacheable plans under
\* k distinct keys into an empty cache the size is exactly min(k, maxSize).
C15_EvictsAtMostOneAtCapacity ==
  config.strategy # "none"
    => /\ \A a \in StoreCalls :
            LET gone == Keys(cache) \ Keys(store(cache, a[1], a[3], a[2], now))
            IN /\ Cardinality(gone) <= 1
               /\ gone # {} => Len(cache) >= config.maxSize
       /\ \A f \in DistinctKeyFills :
            Len(StoreAll(<<>>, f, now)) = Min(Len(f), config.maxSize)

(* ------------- the cache asked under a second snapshot ----------------- *)
\* sensor readings around the rounding boundary 22.05 and inside one tenth
NoisyTemperatures == {2196, 2200, 2204, 2206}

NoisyHumidities == {6000, 6004, 6006}

DevLiving == Dev("light.living_room", "on")

DevHeater == Dev("switch.water_heater", "off")

DeviceLists == {<<DevLiving, DevHeater>>, <<DevHeater, DevLiving>>, <<DevLiving>>}

KeySnapshots ==
  {[timeOfDay |-> "evening", presence |-> TRUE, temperature |-> t,
    humidity |-> h, devices |-> d] :
     t \in NoisyTemperatures, h \in NoisyHumidities, d \in DeviceLists}

InitKey ==
  /\ config \in {c \in Configs : c.strategy = "context_aware" /\ c.maxSize >= 1}
  /\ jsonDigests = {}
  /\ cache = <<>>
  /\ now = 0
  /\ refined = PlanStatus
  /\ refineContext = SnapNightNone
  /\ refineCount = 0
  /\ services = [llm |-> TRUE, ha |-> TRUE]
  /\ world = SnapNightNone
  /\ runs = <<IdleRun>>
  /\ stats = ZeroStats
  /\ served = NotServed
  /\ pair \in KeySnapshots \X KeySnapshots
  /\ LimiterIdle

\* store(intent, plan, S1)
StoreFirst ==
  /\ cache' = store(cache, "sleep", PlanSleepA, Some(pair[1]), now)
  /\ UNCHANGED <<config, now, jsonDigests, refineVars, pipeVars, keyVars, limitVars>>

\* query(intent, S2)
QuerySecond ==
  LET q == query(cache, "sleep", Some(pair[2]), now)
  IN /\ \A i \in 1..Len(q.cache) : q.cache[i].usageCount <= MaxUsage
     /\ cache' = q.cache
     /\ UNCHANGED <<config, now, jsonDigests, refineVars, pipeVars, keyVars, limitVars>>

NextKey == StoreFirst \/ QuerySecond

SpecKey == InitKey /\ [][NextKey]_vars

Abs(x) == IF x < 0 THEN -x ELSE x

\* S1 and S2 differ at most in temperature and humidity
SameButSensors(a, b) ==
  /\ a.timeOfDay = b.timeOfDay
  /\ a.presence = b.presence
  /\ a.devices = b.devices

\* S1 and S2 hold the same device records, in any order, and are otherwise
\* equal
SameButOrder(a, b) ==
  /\ a.timeOfDay = b.timeOfDay
  /\ a.presence = b.presence
  /\ a.temperature = b.temperature
  /\ a.humidity = b.humidity
  /\ Len(a.devices) = Len(b.devices)
  /\ {a.devices[i] : i \in 1..Len(a.devices)}
       = {b.devices[i] : i \in 1..Len(b.devices)}

PairKey(i) == generateCacheKey("sleep", Some(pair[i]))

\* C12 as claimed: snapshots that differ only in temperature or humidity
\* values within 0.05 of each other have equal context-aware fingerprints and
\* cache keys (sensor values in hundredths).
C12_SensorNoiseSameKey ==
  (/\ SameButSensors(pair[1], pair[2])
   /\ Abs(pair[1].temperature - pair[2].temperature) <= 5
   /\ Abs(pair[1].humidity - pair[2].humidity) <= 5)
    => /\ computeContextHash(pair[1]) = computeContextHash(pair[2])
       /\ PairKey(1) = PairKey(2)

\* C12 as amended: snapshots that differ only in temperature or humidity
\* values that round to the same tenth have equal fingerprints and keys.
C12_SameTenthSameKey ==
  (/\ SameButSensors(pair[1], pair[2])
   /\ (pair[1].temperature + 5) \div 10 = (pair[2].temperature + 5) \div 10
   /\ (pair[1].humidity + 5) \div 10 = (pair[2].humidity + 5) \div 10)
    => /\ computeContextHash(pair[1]) = computeContextHash(pair[2])
       /\ PairKey(1) = PairKey(2)

\* a plan stored under S1 was hit by the query under an S2 with another
\* temperature and another humidity in the same tenths
C12_Witness ==
  /\ SameButSensors(pair[1], pair[2])
  /\ pair[1].temperature # pair[2].temperature
  /\ pair[1].humidity # pair[2].humidity
  /\ (pair[1].temperature + 5) \div 10 = (pair[2].temperature + 5) \div 10
  /\ (pair[1].humidity + 5) \div 10 = (pair[2].humidity + 5) \div 10
  /\ Has(cache, PairKey(1))
  /\ Get(cache, PairKey(1)).usageCount = 2

\* C13: snapshots that hold the same device records in a different order and
\* are otherwise equal have equal context-aware fingerprints, so a plan
\* stored under S1 is an exact-key hit for S2.
C13_DeviceOrderSameKey ==
  SameButOrder(pair[1], pair[2])
    => /\ computeContextHash(pair[1]) = computeContextHash(pair[2])
       /\ Has(cache, PairKey(1))
            => LET res == query(cache, "sleep", Some(pair[2]), now).res
               IN /\ res.outcome = "hit"
                  /\ res.entry[1].cacheKey = PairKey(1)
                  /\ Has(cache, PairKey(2))

\* a plan stored under S1 was hit by the query under an S2 that lists the
\* same devices in another order
C13_Witness ==
  /\ SameButOrder(pair[1], pair[2])
  /\ pair[1].devices # pair[2].devices
  /\ Has(cache, PairKey(1))
  /\ Get(cache, PairKey(1)).usageCount = 2

(* --------------------------- PlannerAgent ------------------------------ *)
validatePlanAcceptAll(plan, context) == TRUE

validatePlanSameState(plan, context) ==
  \A i \in 1..Len(plan.steps) :
    /\ FindDevice(context, plan.steps[i].entityId) # 0
    /\ ~IncludesSkip(plan.steps[i].description)

validatePlan(plan, context) ==
  \A i \in 1..Len(plan.steps) : FindDevice(context, plan.steps[i].entityId) # 0

\* entry.contextHash.includes(context.timeOfDay): the stored text is "simple"
\* or 32 hex digits, in which no bucket name occurs
HashIncludes(hash, tod) == FALSE

\* the score of findSimilarPlans in thousandths; confidence in tenths, and
\* `intent.confidence || 0.5` replaces 0
SimilarScore(entry, confidence, tod) ==
  (IF HashIncludes(entry.contextHash, tod) THEN 300 ELSE 0)
    + entry.successRate * 40
    + (IF confidence = 0 THEN 5 ELSE confidence) * 30

SimilarCandidates(c, intent, confidence, tod) ==
  SelectSeq(c, LAMBDA e : e.intent = intent
                          /\ SimilarScore(e, confidence, tod) > 500)

\* candidates.sort((a, b) => b.score - a.score): stable, descending
RECURSIVE InsertByScore(_, _, _, _)
InsertByScore(e, s, confidence, tod) ==
  IF s = <<>> THEN <<e>>
  ELSE IF SimilarScore(e, confidence, tod) >= SimilarScore(Head(s), confidence, tod)
         THEN <<e>> \o s
       ELSE <<Head(s)>> \o InsertByScore(e, Tail(s), confidence, tod)

RECURSIVE SortByScore(_, _, _)
SortByScore(s, confidence, tod) ==
  IF s = <<>> THEN <<>>
  ELSE InsertByScore(Head(s), SortByScore(Tail(s), confidence, tod),
                     confidence, tod)

findSimilarPlans(c, intent, confidence, context) ==
  LET sorted == SortByScore(
                  SimilarCandidates(c, intent, confidence, context.timeOfDay),
                  confidence, context.timeOfDay)
  IN [i \in 1..Min(3, Len(sorted)) |-> sorted[i].plan]

fallbackPlanCacheableStatus(intent) ==
  CASE intent = "sleep" ->
         Plan(PlanId("fallback_sleep"), "sleep", <<StepLivingOff>>, 8, TRUE)
    [] OTHER ->
         Plan(PlanId("fallback_status"), "get_status", <<>>, 5, TRUE)

fallbackPlan(intent) ==
  CASE intent = "bath_prepare" ->
         Plan(PlanId("fallback_bath"), "bath_prepare",
              <<Step("switch.turn_on", "switch.water_heater",
                     <<"preheat water heater">>),
                Step("switch.turn_on", "switch.bathroom_heater",
                     <<"turn on bathroom heater">>),
                Step("light.turn_on", "light.bathroom",
                     <<"turn on bathroom light">>)>>, 8, TRUE)
    [] intent = "sleep" ->
         Plan(PlanId("fallback_sleep"), "sleep", <<StepLivingOff>>, 8, TRUE)
    [] intent = "go_out" ->
         Plan(PlanId("fallback_go_out"), "go_out",
              <<Step("switch.turn_off", "switch.all_lights",
                     <<"turn off all lights">>)>>, 8, TRUE)
    [] OTHER ->
         Plan(PlanId("fallback_status"), "get_status", <<>>, 5, FALSE)

(* --------------------------- Orchestrator ------------------------------ *)
\* the steps executePlan hands to the device controller
executableStepsKeepWarned(plan) ==
  SelectSeq(plan.steps, LAMBDA st : ~IncludesSkip(st.description))

executableSteps(plan) ==
  SelectSeq(plan.steps, LAMBDA st : ~IncludesSkip(st.description)
                                    /\ ~IncludesWarning(st.description))

Command(st) == [service |-> st.service, entityId |-> st.entityId]

\* the elements of s at the indices in `which`, in order
RECURSIVE Pick(_, _)
Pick(s, which) ==
  IF s = <<>> THEN <<>>
  ELSE Pick(SubSeq(s, 1, Len(s) - 1), which)
         \o (IF Len(s) \in which THEN <<s[Len(s)]>> ELSE <<>>)

executeCommandsAnySuccess(commands, failing) ==
  LET errors == {i \in 1..Len(commands) : i \in failing}
  IN [success |-> errors # 1..Len(commands), sent |-> commands, errors |-> errors,
      resultList |-> Pick(commands, (1..Len(commands)) \ errors),
      errorList |-> Pick(commands, errors)]

\* HomeAssistantService.executeCommands: callService for each command in
\* order, those with index in `failing` throw and are collected as errors
executeCommands(commands, failing) ==
  LET errors == {i \in 1..Len(commands) : i \in failing}
  IN [success |-> errors = {}, sent |-> commands, errors |-> errors,
      resultList |-> Pick(commands, (1..Len(commands)) \ errors),
      errorList |-> Pick(commands, errors)]

\* the per-step outcomes executePlan builds from the two lists: the index is
\* the position in the list the outcome was read from, counted from 0
NoDescription == <<>>

StepOutcomes(ex, execution) ==
  [i \in 1..Len(execution.resultList) |->
     [stepIndex |-> i - 1, success |-> TRUE, entityId |-> ex[i].entityId,
      description |-> ex[i].description]]
    \o [i \in 1..Len(execution.errorList) |->
          [stepIndex |-> i - 1, success |-> FALSE,
           entityId |-> execution.errorList[i].entityId,
           description |-> NoDescription]]

\* Orchestrator.executePlan; ha: a device controller is configured
executePlan(plan, ha, failing) ==
  IF ~ha
    THEN [status |-> "partial", haCalls |-> 0, dispatched |-> <<>>, errors |-> {},
          steps |-> [i \in 1..Len(plan.steps) |->
                       [stepIndex |-> i - 1, success |-> TRUE,
                        entityId |-> "", description |-> NoDescription]]]
  ELSE LET ex == executableSteps(plan)
       IN IF Len(ex) = 0
            THEN [status |-> "success", haCalls |-> 0, dispatched |-> <<>>,
                  errors |-> {}, steps |-> <<>>]
          ELSE LET execution == executeCommands(
                                  [i \in 1..Len(ex) |-> Command(ex[i])], failing)
               IN [status |-> IF execution.success THEN "success" ELSE "partial",
                   haCalls |-> 1, dispatched |-> execution.sent,
                   errors |-> execution.errors,
                   steps |-> StepOutcomes(ex, execution)]

\* what the inference backend does with the intent prompt of a message no
\* rule matches: it names an intent, or the call fails
IntentAnswers ==
  {[kind |-> "answer", intent |-> "sleep", confidence |-> 9],
   [kind |-> "error", intent |-> "", confidence |-> 0]}

\* LLMService.recognizeIntent inside IntentAgent.execute
recognizeIntentKeepAnswer(answer) ==
  [intent |-> answer.intent, confidence |-> answer.confidence]

recognizeIntent(answer) ==
  IF answer.kind = "answer"
    THEN [intent |-> answer.intent, confidence |-> answer.confidence]
    ELSE [intent |-> "get_status", confidence |-> 5]

\* the plans the generation backend answers with, per intent label
GeneratedPlans(intent) ==
  IF intent = "sleep" THEN {PlanSleepA}
  ELSE {[PlanStatus EXCEPT !.intent = intent]}

\* what the inference backend does with a plan prompt: it answers with a
\* plan, the call fails, or the answer is JSON without a steps field
PlanAnswers(intent) ==
  {[kind |-> "answer", plan |-> p] : p \in GeneratedPlans(intent)}
    \cup {[kind |-> k, plan |-> PlanStatus] : k \in {"error", "malformed"}}

\* PlannerAgent.generateNewPlan; similar: the number of similar plans found.
\* generatePlan throws on `parsed.steps.map` and the planner falls back;
\* generateContextualPlan returns the object with `steps: undefined`
generateNewPlan(intent, similar, answer) ==
  IF answer.kind = "answer" THEN [kind |-> "plan", plan |-> answer.plan]
  ELSE IF answer.kind = "error" \/ similar = 0
    THEN [kind |-> "plan", plan |-> fallbackPlan(intent)]
  ELSE [kind |-> "nosteps", plan |-> answer.plan]

FailuresToCollapse == ((InitialRate - DeleteBelow) \div FailureStep) + 1

InitPipe ==
  /\ config \in Configs
  /\ jsonDigests \in SUBSET {computeContextHash(SnapEveningOn)}
  /\ cache = <<>>
  /\ now = 0
  /\ refined = PlanStatus
  /\ refineContext = SnapNightNone
  /\ refineCount = 0
  /\ services \in [llm : BOOLEAN, ha : BOOLEAN]
  /\ world \in Snapshots
  /\ runs = <<IdleRun>>
  /\ stats = ZeroStats
  /\ served = NotServed
  /\ pair = <<SnapNightNone, SnapNightNone>>
  /\ LimiterIdle

PipeFrame == UNCHANGED <<config, now, jsonDigests, refineVars, services,
                         keyVars, limitVars>>

\* processUserIntent up to `await this.intentAgent.execute(input)`
Begin(r) ==
  /\ runs[r].pc \in {"idle", "done", "failed"}
  /\ stats.totalRequests < MaxRequests
  /\ stats' = [stats EXCEPT !.totalRequests = @ + 1]
  /\ runs' = [runs EXCEPT ![r] =
                IF services.llm THEN [IdleRun EXCEPT !.pc = "intent"]
                ELSE Failed("no intent agent")]
  /\ UNCHANGED <<cache, world, served>>
  /\ PipeFrame

\* IntentAgent.execute returns: the intent is resolved
ResolveIntent(r) ==
  /\ runs[r].pc = "intent"
  /\ \E a \in IntentAnswers :
       runs' = [runs EXCEPT ![r].intent = recognizeIntent(a).intent,
                            ![r].confidence = recognizeIntent(a).confidence,
                            ![r].llm = a.kind,
                            ![r].pc = "snapshot"]
  /\ UNCHANGED <<cache, world, stats, served>>
  /\ PipeFrame

TakeSnapshotDropCache(r) ==
  /\ runs[r].pc = "snapshot"
  /\ \/ /\ services.ha
        /\ runs' = [runs EXCEPT ![r].context = Some(world), ![r].llm = "none",
                                ![r].pc = "plan"]
        /\ cache' = cache
     \/ /\ runs' = [runs EXCEPT ![r] =
                       IF services.ha THEN Failed("device states unreadable")
                       ELSE Failed("no context agent")]
        /\ cache' = <<>>
  /\ UNCHANGED <<world, stats, served>>
  /\ PipeFrame

\* step 2 of processUserIntent: without a device controller there is no
\* context agent and the call throws; ContextAgent.execute reads the device
\* states, or the read fails
TakeSnapshot(r) ==
  /\ runs[r].pc = "snapshot"
  /\ \/ /\ services.ha
        /\ runs' = [runs EXCEPT ![r].context = Some(world), ![r].llm = "none",
                                ![r].pc = "plan"]
     \/ runs' = [runs EXCEPT ![r] =
                    IF services.ha THEN Failed("device states unreadable")
                    ELSE Failed("no context agent")]
  /\ UNCHANGED <<cache, world, stats, served>>
  /\ PipeFrame

\* PlannerAgent.execute up to its first await: the cache query and, on a
\* miss, findSimilarPlans and the call of the generation backend
PlanQuery(r) ==
  /\ runs[r].pc = "plan"
  /\ LET q == query(cache, runs[r].intent, runs[r].context, now)
     IN /\ cache' = q.cache
        /\ runs' =
             CASE q.res.outcome = "raise" ->
                    [runs EXCEPT ![r] = Failed("JSON.parse")]
               [] q.res.outcome = "hit" ->
                    [runs EXCEPT ![r].plan = Some(q.res.entry[1].plan),
                                 ![r].hitKey = q.res.entry[1].cacheKey,
                                 ![r].pc = "validate"]
               [] OTHER ->
                    [runs EXCEPT ![r].similar =
                                   Len(findSimilarPlans(q.cache, runs[r].intent,
                                         runs[r].confidence, runs[r].context[1])),
                                 ![r].pc = "generate"]
  /\ UNCHANGED <<world, stats, served>>
  /\ PipeFrame

ValidateRetakeSnapshot(r) ==
  /\ runs[r].pc = "validate"
  /\ runs' =
       IF validatePlan(runs[r].plan[1], runs[r].context[1])
         THEN [runs EXCEPT ![r].cacheHit = TRUE, ![r].pc = "execute"]
         ELSE [runs EXCEPT ![r].plan = NoPlan, ![r].hitKey = NoKey,
                           ![r].context = NoContext, ![r].pc = "snapshot"]
  /\ UNCHANGED <<cache, world, stats, served>>
  /\ PipeFrame

\* after `await this.validatePlan(...)`: return the cached plan as it is, or
\* go on as on a miss
Validate(r) ==
  /\ runs[r].pc = "validate"
  /\ runs' =
       IF validatePlan(runs[r].plan[1], runs[r].context[1])
         THEN [runs EXCEPT ![r].cacheHit = TRUE, ![r].pc = "execute"]
         ELSE [runs EXCEPT ![r].similar =
                             Len(findSimilarPlans(cache, runs[r].intent,
                                   runs[r].confidence, runs[r].context[1])),
                           ![r].plan = NoPlan,
                           ![r].pc = "generate"]
  /\ UNCHANGED <<cache, world, stats, served>>
  /\ PipeFrame

\* the generation backend answers or fails (then fallbackPlan); the plan is
\* refined; up to `await this.validateAndRefinePlan(...)`
Generate(r) ==
  /\ runs[r].pc = "generate"
  /\ \E a \in PlanAnswers(runs[r].intent) :
       LET g == generateNewPlan(runs[r].intent, runs[r].similar, a)
       IN runs' =
            IF g.kind = "nosteps"
              THEN [runs EXCEPT ![r] = Failed("steps not iterable")]
              ELSE [runs EXCEPT
                      ![r].plan = Some(validateAndRefinePlan(
                                         g.plan, runs[r].context[1])),
                      ![r].generated = TRUE,
                      ![r].llm = a.kind,
                      ![r].pc = "store"]
  /\ UNCHANGED <<cache, world, stats, served>>
  /\ PipeFrame

\* the rest of PlannerAgent.execute: store the refined plan, return it
StorePlan(r) ==
  /\ runs[r].pc = "store"
  /\ cache' = IF runs[r].plan[1].cacheable
                THEN store(cache, runs[r].intent, runs[r].plan[1],
                           runs[r].context, now)
                ELSE cache
  /\ runs' = [runs EXCEPT ![r].cacheHit = FALSE, ![r].llm = "none",
                          ![r].pc = "execute"]
  /\ served' = IF /\ runs[r].plan[1].cacheable
                  /\ served.key = generateCacheKey(runs[r].intent, runs[r].context)
                 THEN NotServed ELSE served
  /\ UNCHANGED <<world, stats>>
  /\ PipeFrame

\* processUserIntent after the planner returned, and executePlan: the
\* commands of the executable steps are dispatched, some may fail
Execute(r) ==
  /\ runs[r].pc = "execute"
  /\ stats' = IF runs[r].cacheHit THEN [stats EXCEPT !.cacheHits = @ + 1]
              ELSE stats
  /\ \E failing \in SUBSET (1..Len(executableSteps(runs[r].plan[1]))) :
       LET execution == executePlan(runs[r].plan[1], services.ha, failing)
       IN runs' = [runs EXCEPT ![r].dispatched = execution.dispatched,
                               ![r].haCalls = execution.haCalls,
                               ![r].errors = execution.errors,
                               ![r].status = execution.status,
                               ![r].pc = "feedback"]
  /\ UNCHANGED <<cache, world, served>>
  /\ PipeFrame

\* the rest of processUserIntent: statistics and the success-rate report
Feedback(r) ==
  /\ runs[r].pc = "feedback"
  /\ stats' = IF runs[r].status = "success"
                THEN [stats EXCEPT !.successCount = @ + 1]
                ELSE [stats EXCEPT !.errorCount = @ + 1]
  /\ cache' = IF runs[r].cacheHit
                THEN updateSuccessRate(cache, runs[r].plan[1].planId,
                                       runs[r].status = "success")
                ELSE cache
  /\ served' = IF ~runs[r].cacheHit THEN served
               ELSE IF runs[r].status = "success" THEN NotServed
               ELSE IF served.key = runs[r].hitKey
                 THEN [served EXCEPT !.fails = Min(@ + 1, FailuresToCollapse)]
               ELSE [key |-> runs[r].hitKey, fails |-> 1]
  /\ runs' = [runs EXCEPT ![r] = Returned("done")]
  /\ UNCHANGED world
  /\ PipeFrame

\* the home changes: devices are switched, time of day passes
EnvChange ==
  /\ \E s \in Snapshots \ {world} : world' = s
  /\ UNCHANGED <<cache, runs, stats, served>>
  /\ PipeFrame

\* Orchestrator.clearCache
ClearCache ==
  /\ cache # <<>>
  /\ cache' = <<>>
  /\ UNCHANGED <<world, runs, stats, served>>
  /\ PipeFrame

Tick ==
  /\ now < MaxTime
  /\ now' = now + 1
  /\ UNCHANGED <<config, cache, jsonDigests, refineVars, pipeVars, keyVars, limitVars>>

NextPipe ==
  \/ \E r \in Runs : Begin(r)
  \/ \E r \in Runs : ResolveIntent(r)
  \/ \E r \in Runs : TakeSnapshot(r)
  \/ \E r \in Runs : PlanQuery(r)
  \/ \E r \in Runs : Validate(r)
  \/ \E r \in Runs : Generate(r)
  \/ \E r \in Runs : StorePlan(r)
  \/ \E r \in Runs : Execute(r)
  \/ \E r \in Runs : Feedback(r)
  \/ EnvChange
  \/ ClearCache
  \/ Tick

SpecPipe == InitPipe /\ [][NextPipe]_vars

(* ------------------------ claims on the pipeline ----------------------- *)
RunKey(r) == generateCacheKey(runs[r].intent, runs[r].context)

\* C2: when processUserIntent resolved its plan from a cache hit, the outcome
\* is applied to the very entry that was hit: its rate rises by 0.1 (capped
\* at 1.0) on SUCCESS and falls by 0.2 (floored at 0) otherwise; after a miss
\* no entry's rate changes.
C2_FeedbackOnHitEntry ==
  [][\A r \in Runs :
       (runs[r].pc = "feedback" /\ runs'[r].pc = "done")
         => IF runs[r].cacheHit
              THEN Has(cache, runs[r].hitKey)
                     => LET rate == NewRate(Get(cache, runs[r].hitKey).successRate,
                                            runs[r].status = "success")
                        IN IF rate < DeleteBelow
                             THEN ~Has(cache', runs[r].hitKey)
                             ELSE /\ Has(cache', runs[r].hitKey)
                                  /\ Get(cache', runs[r].hitKey).successRate = rate
              ELSE cache' = cache]_vars

\* C3: an entry that keeps serving requests whose executions all fail is
\* deleted after finitely many of them: after n such requests in a row the
\* entry is gone or its rate is at most 1.0 - 0.2 n, which leaves no entry
\* after FailuresToCollapse of them.
C3_FailingEntryCollapses ==
  (served.fails >= 1 /\ Has(cache, served.key))
    => /\ served.fails < FailuresToCollapse
       /\ Get(cache, served.key).successRate
            <= InitialRate - FailureStep * served.fails

\* the entry under the exact key of run r was stored for a snapshot with the
\* fingerprint of the run's snapshot, and is within its ttl
ExactFresh(r) ==
  /\ Has(cache, RunKey(r))
  /\ Get(cache, RunKey(r)).contextHash = computeContextHash(runs[r].context[1])
  /\ ~isExpired(Get(cache, RunKey(r)), now)

ServedExact(r) ==
  /\ Has(cache, runs[r].hitKey)
  /\ runs[r].hitKey = RunKey(r)
  /\ Get(cache, runs[r].hitKey).contextHash
       = computeContextHash(runs[r].context[1])

\* C7 as claimed: a run that missed and produced a cacheable plan leaves it in
\* the cache, and a later run with the same intent and an identical snapshot
\* (within ttl, entry still held) is served from the cache without a
\* plan-generation call, whatever plan the first run produced.
C7_SecondRunServedFromCache ==
  [][\A r \in Runs :
       /\ (runs[r].pc = "store" /\ runs'[r].pc = "execute"
             /\ runs[r].plan[1].cacheable)
            => Has(cache', RunKey(r))
       /\ (runs[r].pc = "plan" /\ runs'[r].pc # "plan" /\ ExactFresh(r))
            => runs'[r].pc = "validate"
       /\ (runs[r].pc = "validate" /\ runs'[r].pc # "validate" /\ ServedExact(r))
            => (runs'[r].pc = "execute" /\ runs'[r].cacheHit
                  /\ ~runs'[r].generated)]_vars

\* C7 as amended: the same under a strategy other than "none" and for plans
\* all of whose steps target a device present in the snapshot.
C7_SecondRunServedWhenTargetsPresent ==
  [][\A r \in Runs :
       /\ (runs[r].pc = "store" /\ runs'[r].pc = "execute"
             /\ runs[r].plan[1].cacheable /\ config.strategy # "none")
            => (/\ Has(cache', RunKey(r))
                /\ Get(cache', RunKey(r)).plan = runs[r].plan[1])
       /\ (runs[r].pc = "plan" /\ runs'[r].pc # "plan" /\ ExactFresh(r))
            => (/\ runs'[r].pc = "validate"
                /\ runs'[r].plan = Some(Get(cache, RunKey(r)).plan))
       /\ (runs[r].pc = "validate" /\ runs'[r].pc # "validate" /\ ServedExact(r)
             /\ \A i \in 1..Len(runs[r].plan[1].steps) :
                  FindDevice(runs[r].context[1],
                             runs[r].plan[1].steps[i].entityId) # 0)
            => (runs'[r].pc = "execute" /\ runs'[r].cacheHit
                  /\ ~runs'[r].generated)]_vars

\* a second request was served from the entry stored for its own snapshot, a
\* plan with a step, without a generation call
C7_Witness ==
  \E r \in Runs :
    /\ runs[r].pc = "execute"
    /\ runs[r].cacheHit
    /\ ~runs[r].generated
    /\ ServedExact(r)
    /\ Len(runs[r].plan[1].steps) >= 1
    /\ stats.totalRequests >= 2

\* C9: on a cache hit the plan handed to execution is annotated for the
\* current snapshot: a turn-on step whose device is off, or a turn-off step
\* whose device is on, is not marked skipped and is dispatched.
C9_HitPlanRefinedForSnapshot ==
  \A r \in Runs :
    (runs[r].pc = "feedback" /\ runs[r].cacheHit)
      => \A i \in 1..Len(runs[r].plan[1].steps) :
           LET st == runs[r].plan[1].steps[i]
               d == FindDevice(runs[r].context[1], st.entityId)
           IN (/\ d # 0
               /\ \/ IsTurnOn(st.service)
                       /\ runs[r].context[1].devices[d].state = "off"
                  \/ IsTurnOff(st.service)
                       /\ runs[r].context[1].devices[d].state = "on")
                => /\ ~IncludesSkip(st.description)
                   /\ \E j \in 1..Len(runs[r].dispatched) :
                        runs[r].dispatched[j] = Command(st)

\* C14: under the disabled strategy, after any sequence of operations, every
\* query reports a miss and no store increases the size of the cache, which
\* stays empty; no request is served from the cache.
C14_DisabledNeverCaches ==
  config.strategy = "none"
    => /\ cache = <<>>
       /\ \A r \in Runs : ~runs[r].cacheHit /\ runs[r].hitKey = NoKey
       /\ \A a \in QueryArgs :
            query(cache, a[1], a[2], now).res.outcome = "miss"
       /\ \A a \in StoreCalls :
            Len(store(cache, a[1], a[3], a[2], now)) <= Len(cache)

\* under the disabled strategy a second request has asked the cache, has
\* generated a cacheable plan and has handed it to store
C14_Witness ==
  /\ config.strategy = "none"
  /\ stats.totalRequests >= 2
  /\ \E r \in Runs :
       /\ runs[r].pc = "execute"
       /\ runs[r].generated
       /\ runs[r].plan[1].cacheable

(* ------------------- the cache while the clock runs -------------------- *)
\* the readings a scan of the cache may take from now on: the clock stays, or
\* advances by one before the reading for entry k + 1
ScanReads ==
  {[i \in 1..Len(cache) |-> IF i <= k THEN now ELSE now + 1] :
     k \in IF now < MaxTime THEN 0..Len(cache) ELSE {Len(cache)}}

LastRead(reads) == IF reads = <<>> THEN now ELSE reads[Len(reads)]

StoreScan(intent, plan, ctx) ==
  \E reads \in ScanReads :
    /\ (LastRead(reads) # now)
         => (config.strategy # "none" /\ plan.cacheable
               /\ Len(cache) >= config.maxSize)
    /\ cache' = storeAt(cache, intent, plan, ctx, reads, LastRead(reads))
    /\ now' = LastRead(reads)
    /\ UNCHANGED <<config, jsonDigests, refineVars, pipeVars, keyVars, limitVars>>

NextTimed ==
  \/ \E a \in StoreCalls : StoreScan(a[1], a[3], a[2])
  \/ \E a \in QueryArgs : Query(a[1], a[2])
  \/ \E k \in AllKeys, s \in BOOLEAN : UpdateSuccessRate(k, s)
  \/ Tick

SpecTimed == InitCache /\ [][NextTimed]_vars

\* the candidate entry of query: the one under the exact key, or else the one
\* fuzzy matching returns; 0 when there is none
QueryCandidate(c, intent, ctx) ==
  LET key == generateCacheKey(intent, ctx)
  IN IF config.strategy = "none" THEN 0
     ELSE IF Has(c, key) THEN IndexOf(c, key)
     ELSE IF config.strategy = "context_aware" /\ ctx # NoContext
            /\ findFuzzyMatch(c, intent, ctx[1]).kind = "found"
       THEN findFuzzyMatch(c, intent, ctx[1]).at
     ELSE 0

\* C17: when the candidate entry found by query, by exact key or by fuzzy
\* match, is expired (now - lastUsed > ttl), query reports a miss and that
\* entry is no longer in the cache; an expired entry is never returned.
C17_ExpiredCandidateRemoved ==
  \A a \in QueryArgs :
    LET i == QueryCandidate(cache, a[1], a[2])
        q == query(cache, a[1], a[2], now)
    IN (i # 0 /\ isExpired(cache[i], now))
         => /\ q.res.outcome = "miss"
            /\ ~Has(q.cache, cache[i].cacheKey)

(* ------------------- eviction from a cache at capacity ----------------- *)
EvictIntents == <<"sleep", "go_out", "bath_prepare", "go_home">>

EvictPlan(intent) == Plan(PlanId(intent), intent, <<>>, 8, TRUE)

\* rates an entry has after zero, one or three failed executions
HeldRates == {4, 8, 10}

\* the entry the i-th intent was stored under, used u - 1 times since, last at l
HeldEntry(i, u, r, l) ==
  [NewEntry(Key("simple", EvictIntents[i], NoHash), EvictIntents[i],
            EvictPlan(EvictIntents[i]), NoContext, l)
     EXCEPT !.usageCount = u, !.successRate = r]

InitEvict ==
  /\ config \in [strategy : {"simple"}, ttl : {0}, maxSize : 1..MaxCapacity]
  /\ now \in 0..MaxTime
  /\ cache \in {[i \in 1..config.maxSize |-> HeldEntry(i, u[i], r[i], l[i])] :
                  u \in [1..config.maxSize -> 1..MaxUsage],
                  r \in [1..config.maxSize -> HeldRates],
                  l \in [1..config.maxSize -> 0..now]}
  /\ jsonDigests = {}
  /\ refined = PlanStatus
  /\ refineContext = SnapNightNone
  /\ refineCount = 0
  /\ PipeIdle

NextEvict ==
  \/ \E i \in 1..Len(EvictIntents) :
       StoreScan(EvictIntents[i], EvictPlan(EvictIntents[i]), NoContext)
  \/ Tick

SpecEvict == InitEvict /\ [][NextEvict]_vars

AbsentTargets(r) ==
  {i \in 1..Len(runs[r].plan[1].steps) :
     \A d \in 1..Len(runs[r].context[1].devices) :
       runs[r].context[1].devices[d].entityId # runs[r].plan[1].steps[i].entityId}

\* C18: plan resolution returns a cached plan (cacheHit = TRUE) only if every
\* step's target entity is in the fresh snapshot; a hit that fails this
\* re-validation goes on as a miss does (with no plan, to generation,
\* refinement and store) and the run is reported with cacheHit = FALSE.
C18_CachedPlanRevalidated ==
  \A r \in Runs :
    /\ (runs[r].pc = "generate")
         => (runs[r].plan = NoPlan /\ ~runs[r].cacheHit /\ ~runs[r].generated)
    /\ (runs[r].pc \in {"execute", "feedback"})
         => /\ runs[r].cacheHit
                 => (AbsentTargets(r) = {} /\ runs[r].hitKey # NoKey
                       /\ ~runs[r].generated)
            /\ ~runs[r].cacheHit => runs[r].generated

\* a hit was rejected by the re-validation, a plan was generated and stored,
\* and the run is about to be reported without cacheHit
C18_Witness ==
  \E r \in Runs :
    /\ runs[r].pc = "execute"
    /\ runs[r].hitKey # NoKey
    /\ runs[r].generated
    /\ ~runs[r].cacheHit
    /\ Has(cache, RunKey(r))

(* ------------------------ non-cacheable plans -------------------------- *)
\* C19: store is a no-op when plan.cacheable is false, so in every reachable
\* state every plan a cache entry refers to has cacheable = TRUE; the empty
\* fallback status plan is never cached.
C19_OnlyCacheablePlansCached ==
  /\ \A i \in 1..Len(cache) :
       cache[i].plan.cacheable /\ cache[i].plan # PlanStatus
  /\ \A a \in StoreCalls :
       ~a[3].cacheable => store(cache, a[1], a[3], a[2], now) = cache

\* the cache holds a plan under the very key the store of the status plan is
\* called with, and an enabled strategy: the call would replace that entry
C19_Witness ==
  /\ config.strategy # "none"
  /\ \E a \in StoreCalls :
       /\ ~a[3].cacheable
       /\ Has(cache, CallKey(a))
       /\ cache[IndexOf(cache, CallKey(a))].usageCount >= 2

(* ---------------------- refinement, step by step ----------------------- *)
BathPlan == fallbackPlan("bath_prepare")

\* the bathroom with its three devices off
SnapBathOff ==
  [timeOfDay |-> "evening", presence |-> TRUE, temperature |-> 2200,
   humidity |-> 6000,
   devices |-> <<Dev("switch.water_heater", "off"),
                 Dev("switch.bathroom_heater", "off"),
                 Dev("light.bathroom", "off")>>]

\* the same with the water heater already on
SnapBathHeaterOn ==
  [SnapBathOff EXCEPT !.devices[1] = Dev("switch.water_heater", "on")]

InitRefineStep ==
  /\ refined \in RefineInputs \cup {BathPlan}
  /\ refineContext \in RefineContexts \cup {SnapBathOff, SnapBathHeaterOn}
  /\ refineCount = 0
  /\ config = [strategy |-> "none", ttl |-> 0, maxSize |-> 0]
  /\ jsonDigests = {}
  /\ cache = <<>>
  /\ now = 0
  /\ PipeIdle

NextRefineStep == Refine

SpecRefineStep == InitRefineStep /\ [][NextRefineStep]_vars

\* the snapshot holds a device with this id / one with this id in this state
Present(context, id) ==
  \E d \in 1..Len(context.devices) : context.devices[d].entityId = id

InState(context, id, st) ==
  \E d \in 1..Len(context.devices) :
    context.devices[d].entityId = id /\ context.devices[d].state = st

\* C20: for each step of a plan, refinement marks the description as skipped
\* when the step is a turn-on and the target device is on, or a turn-off and
\* the device is off; marks it with a warning when the device is absent from
\* the snapshot; otherwise returns the step unchanged.  Prepare-bath with the
\* three devices off yields three active steps; with the water heater on,
\* only that step is marked skipped.
C20_RefinementPerStep ==
  LET out == validateAndRefinePlan(refined, refineContext)
  IN /\ Len(out.steps) = Len(refined.steps)
     /\ [out EXCEPT !.steps = refined.steps] = refined
     /\ \A i \in 1..Len(refined.steps) :
          LET st == refined.steps[i]
              o == out.steps[i]
          IN /\ [o EXCEPT !.description = st.description] = st
             /\ IF ~Present(refineContext, st.entityId)
                  THEN o.description = <<DeviceMissing>> \o st.description
                ELSE IF IsTurnOn(st.service)
                          /\ InState(refineContext, st.entityId, "on")
                  THEN o.description
                         = <<AlreadyOn>> \o st.description \o <<Skipped>>
                ELSE IF IsTurnOff(st.service)
                          /\ InState(refineContext, st.entityId, "off")
                  THEN o.description
                         = <<AlreadyOff>> \o st.description \o <<Skipped>>
                ELSE o = st
     /\ (refined = BathPlan /\ refineContext = SnapBathOff)
          => (out = BathPlan /\ Len(executableSteps(out)) = 3)
     /\ (refined = BathPlan /\ refineContext = SnapBathHeaterOn)
          => /\ IncludesSkip(out.steps[1].description)
             /\ executableSteps(out) = <<BathPlan.steps[2], BathPlan.steps[3]>>

\* the prepare-bath plan has been refined against the bathroom with the water
\* heater on: its first step is marked skipped, the other two are active
C20_Witness ==
  /\ refineCount = 1
  /\ refineContext = SnapBathHeaterOn
  /\ refined.planId = BathPlan.planId
  /\ IncludesSkip(refined.steps[1].description)
  /\ Len(executableSteps(refined)) = 2

\* C21: refinement never reorders or removes steps: the refined plan has as
\* many steps as the input plan, at every index the service, the entity id
\* and the target name are those of the input step, and every field of the
\* plan other than the steps is unchanged; only descriptions may differ.
C21_RefinementKeepsSteps ==
  LET out == validateAndRefinePlan(refined, refineContext)
  IN /\ Len(out.steps) = Len(refined.steps)
     /\ \A i \in 1..Len(refined.steps) :
          /\ i \in DOMAIN out.steps
          /\ out.steps[i].service = refined.steps[i].service
          /\ out.steps[i].entityId = refined.steps[i].entityId
          /\ out.steps[i].targetName = refined.steps[i].targetName
     /\ out.planId = refined.planId
     /\ out.intent = refined.intent
     /\ out.confidence = refined.confidence
     /\ out.cacheable = refined.cacheable

\* a plan of two steps has been refined: its first step is marked skipped,
\* its second step is a different one and is not
C21_Witness ==
  /\ refineCount >= 1
  /\ Len(refined.steps) = 2
  /\ IncludesSkip(refined.steps[1].description)
  /\ ~IncludesSkip(refined.steps[2].description)
  /\ refined.steps[1].entityId # refined.steps[2].entityId

(* ------------------------ execution of a plan -------------------------- *)
\* the refined plans handed to execution, with the snapshot they were
\* refined against
ExecInputs ==
  {<<validateAndRefinePlan(p, c), c>> :
     p \in RefineInputs \cup {BathPlan},
     c \in RefineContexts \cup {SnapBathOff, SnapBathHeaterOn}}

\* a request whose plan has just been resolved
InitExec ==
  /\ \E x \in ExecInputs :
       /\ runs = <<[IdleRun EXCEPT !.pc = "execute", !.intent = x[1].intent,
                                   !.confidence = 9, !.context = Some(x[2]),
                                   !.plan = Some(x[1]), !.generated = TRUE]>>
       /\ world = x[2]
  /\ services = [llm |-> TRUE, ha |-> TRUE]
  /\ stats = [ZeroStats EXCEPT !.totalRequests = 1]
  /\ served = NotServed
  /\ pair = <<SnapNightNone, SnapNightNone>>
  /\ LimiterIdle
  /\ config = [strategy |-> "none", ttl |-> 0, maxSize |-> 0]
  /\ jsonDigests = {}
  /\ cache = <<>>
  /\ now = 0
  /\ refined = PlanStatus
  /\ refineContext = SnapNightNone
  /\ refineCount = 0

NextExec ==
  \/ \E r \in Runs : Execute(r)
  \/ \E r \in Runs : Feedback(r)

SpecExec == InitExec /\ [][NextExec]_vars

\* the indices of the plan's steps whose description carries no marker
Unmarked(plan) ==
  {i \in 1..Len(plan.steps) :
     \A k \in 1..Len(plan.steps[i].description) :
       plan.steps[i].description[k] \notin {Skipped, DeviceMissing}}

\* C22: execution dispatches a device command for exactly the plan steps that
\* are neither marked skipped nor marked with a warning, in plan order; a
\* marked step is never sent to the device controller, and when no step is
\* dispatchable no controller call is made.
C22_DispatchesUnmarkedSteps ==
  \A r \in Runs :
    (runs[r].pc = "feedback")
      => LET plan == runs[r].plan[1]
             sent == runs[r].dispatched
         IN /\ Len(sent) = Cardinality(Unmarked(plan))
            /\ \E f \in [1..Len(sent) -> Unmarked(plan)] :
                 /\ \A j \in 1..Len(sent) :
                      /\ sent[j].service = plan.steps[f[j]].service
                      /\ sent[j].entityId = plan.steps[f[j]].entityId
                 /\ \A j \in 1..Len(sent), k \in 1..Len(sent) :
                      j < k => f[j] < f[k]
            /\ runs[r].haCalls = IF Unmarked(plan) = {} THEN 0 ELSE 1

\* the prepare-bath plan refined with the water heater on has been executed:
\* of its three steps the two unmarked ones were sent
C22_Witness ==
  \E r \in Runs :
    /\ runs[r].pc = "feedback"
    /\ Len(runs[r].plan[1].steps) = 3
    /\ IncludesSkip(runs[r].plan[1].steps[1].description)
    /\ Len(runs[r].dispatched) = 2
    /\ runs[r].haCalls = 1

C24_NoControllerCompletes ==
  (services.llm /\ ~services.ha) => \A r \in Runs : runs[r].pc # "failed"

\* the intent labels the fallback table has an entry for
FallbackTable == {"bath_prepare", "sleep", "go_out"}

\* C25: if the plan-generation call fails, plan resolution does not fail: it
\* goes on with the fixed rule-based plan of the intent label, and for an
\* intent without a table entry with an empty plan with cacheable = FALSE,
\* which is returned but never stored in the cache.
C25_GenerationFailureFallsBack ==
  /\ \A r \in Runs :
       /\ (runs[r].pc = "generate")
            => \A a \in PlanAnswers(runs[r].intent) :
                 (a.kind = "error")
                   => generateNewPlan(runs[r].intent, runs[r].similar, a)
                        = [kind |-> "plan", plan |-> fallbackPlan(runs[r].intent)]
       /\ (runs[r].pc = "store" /\ runs[r].llm = "error")
            => LET plan == runs[r].plan[1]
               IN /\ plan.planId = fallbackPlan(runs[r].intent).planId
                  /\ Len(plan.steps) = Len(fallbackPlan(runs[r].intent).steps)
                  /\ (runs[r].intent \notin FallbackTable)
                       => /\ plan.steps = <<>>
                          /\ ~plan.cacheable
                          /\ store(cache, runs[r].intent, plan, runs[r].context,
                                   now) = cache
  /\ \A i \in 1..Len(cache) :
       cache[i].plan.planId # PlanId("fallback_status")

\* the generation call failed for an intent without a table entry: the empty
\* status plan is about to be returned, with a plan already in the cache
C25_Witness ==
  \E r \in Runs :
    /\ runs[r].pc = "store"
    /\ runs[r].llm = "error"
    /\ runs[r].intent = "get_status"
    /\ runs[r].plan[1].planId = PlanId("fallback_status")
    /\ cache # <<>>

\* C26: when the plan generator returns a malformed plan (one without a
\* steps field), on either generation path, plan resolution fails the
\* request: no run goes on with a plan after such an answer.
C26_MalformedPlanFailsHard ==
  \A r \in Runs : runs[r].llm = "malformed" => runs[r].plan = NoPlan

\* C27: if intent resolution by the inference backend fails, the pipeline
\* does not abort: it goes on to the snapshot stage with the get-status
\* intent at the lowest confidence, 0.5.
C27_IntentFailureFallsBack ==
  \A r \in Runs :
    /\ (runs[r].pc = "intent")
         => \A a \in IntentAnswers :
              (a.kind = "error")
                => recognizeIntent(a) = [intent |-> "get_status", confidence |-> 5]
    /\ (runs[r].pc = "snapshot" /\ runs[r].llm = "error")
         => (runs[r].intent = "get_status" /\ runs[r].confidence = 5)

\* intent resolution failed and the run stands before the snapshot stage
C27_Witness ==
  \E r \in Runs : runs[r].pc = "snapshot" /\ runs[r].llm = "error"

\* C28: if the device-state read fails during the snapshot stage, the whole
\* request fails: up to then no cache query or store was performed, no plan
\* was generated and no device command dispatched, the failure leaves the
\* cache content as it is, and no later stage runs without a snapshot.
C28_SnapshotFailureFailsRequest ==
  /\ [](\A r \in Runs :
          /\ (runs[r].pc = "snapshot")
               => /\ runs[r].plan = NoPlan /\ runs[r].hitKey = NoKey
                  /\ ~runs[r].generated /\ ~runs[r].cacheHit
                  /\ runs[r].dispatched = <<>> /\ runs[r].haCalls = 0
          /\ (runs[r].pc \in {"plan", "validate", "generate", "store",
                              "execute", "feedback"})
               => runs[r].context # NoContext)
  /\ [][\A r \in Runs :
          (runs[r].pc # "failed" /\ runs'[r].pc = "failed"
             /\ runs'[r].error = "device states unreadable")
            => /\ runs[r].pc = "snapshot"
               /\ cache' = cache
               /\ stats' = stats
               /\ runs'[r].plan = NoPlan
               /\ runs'[r].dispatched = <<>>]_vars

\* a request failed on the device-state read while the cache held a plan
C28_Witness ==
  \E r \in Runs :
    /\ runs[r].pc = "failed"
    /\ runs[r].error = "device states unreadable"
    /\ cache # <<>>

(* --------------------------- the four stages --------------------------- *)
\* the place of a program position in processUserIntent: intent resolution,
\* snapshot, plan resolution (query, validation, generation, store),
\* execution, and the bookkeeping before the return
Position(pc) ==
  CASE pc = "intent" -> 1
    [] pc = "snapshot" -> 2
    [] pc = "plan" -> 3
    [] pc = "validate" -> 4
    [] pc = "generate" -> 5
    [] pc = "store" -> 6
    [] pc = "execute" -> 7
    [] pc = "feedback" -> 8
    [] OTHER -> 0

\* C29: every run of processUserIntent passes the stages in the fixed order
\* intent resolution, snapshot, plan resolution, execution, each at most once
\* and never back; no device command is dispatched before the plan is
\* resolved, and the run returns all of intent, snapshot, plan and execution
\* outcome or fails the whole request.
C29_StagesInOrder ==
  /\ [](\A r \in Runs :
          /\ (Position(runs[r].pc) >= 2) => runs[r].intent # ""
          /\ (Position(runs[r].pc) >= 3) => runs[r].context # NoContext
          /\ (Position(runs[r].pc) >= 7) => runs[r].plan # NoPlan
          /\ (Position(runs[r].pc) <= 7)
               => (runs[r].dispatched = <<>> /\ runs[r].haCalls = 0
                     /\ runs[r].status = "pending")
          /\ (runs[r].pc = "feedback") => runs[r].status # "pending")
  /\ [][\A r \in Runs :
          (runs'[r].pc # runs[r].pc)
            => IF Position(runs[r].pc) = 0
                 THEN runs'[r].pc \in {"intent", "failed"}
               ELSE IF runs'[r].pc = "done" THEN runs[r].pc = "feedback"
               ELSE IF runs'[r].pc = "failed" THEN Position(runs[r].pc) <= 6
               ELSE Position(runs'[r].pc) > Position(runs[r].pc)]_vars

\* a second run has passed all four stages, with a generated plan, and is
\* about to return after a dispatched command failed
C29_Witness ==
  \E r \in Runs :
    /\ runs[r].pc = "feedback"
    /\ stats.totalRequests >= 2
    /\ runs[r].generated
    /\ runs[r].dispatched # <<>>
    /\ runs[r].status = "partial"

(* --------------------------- simple strategy --------------------------- *)
\* the cache service constructed with the simple strategy
InitSimple ==
  /\ InitCache
  /\ config.strategy = "simple"
  /\ jsonDigests = {}

SpecSimple == InitSimple /\ [][NextCache]_vars

\* the cache holds at most one entry per intent label
OnePerIntent(c) ==
  \A i \in 1..Len(c), j \in 1..Len(c) : c[i].intent = c[j].intent => i = j

\* C30: under the simple strategy the key is the intent label only: after
\* any sequence of stores the cache holds at most one entry per intent label,
\* and a plan stored for an intent under one snapshot is returned as a hit
\* for the same intent under any other snapshot, and under none.
C30_SimpleOnePlanPerIntent ==
  (config.strategy = "simple")
    => /\ OnePerIntent(cache)
       /\ \A a \in CacheableCalls, ctx \in ContextArgs :
            LET c1 == store(cache, a[1], a[3], a[2], now)
                res == query(c1, a[1], ctx, now).res
            IN /\ OnePerIntent(c1)
               /\ res.outcome = "hit"
               /\ res.entry[1].plan = a[3]
               /\ res.entry[1].intent = a[1]

\* under the simple strategy the cache holds a plan that was stored under the
\* evening snapshot and has been returned since
C30_Witness ==
  /\ config.strategy = "simple"
  /\ \E i \in 1..Len(cache) :
       /\ cache[i].contextHash = computeContextHash(SnapEveningOn)
       /\ cache[i].usageCount >= 2

(* ------------------- counters and rates of an entry -------------------- *)
\* the cache under every configuration, all of its entries parseable
InitRates ==
  /\ InitCache
  /\ jsonDigests = {}

SpecRates == InitRates /\ [][NextCache]_vars

\* C32: the usage counter of the entry stored under a cache key is monotonic:
\* while the key stays in the cache, no query, store or updateSuccessRate
\* call makes the counter smaller.
C32_UsageCountMonotonic ==
  \A k \in Keys(cache) :
    /\ \A a \in QueryArgs :
         LET c1 == query(cache, a[1], a[2], now).cache
         IN Has(c1, k) => Get(c1, k).usageCount >= Get(cache, k).usageCount
    /\ \A k2 \in AllKeys, s \in BOOLEAN :
         LET c1 == updateSuccessRate(cache, k2, s)
         IN Has(c1, k) => Get(c1, k).usageCount >= Get(cache, k).usageCount
    /\ \A a \in StoreCalls :
         LET c1 == store(cache, a[1], a[3], a[2], now)
         IN Has(c1, k) => Get(c1, k).usageCount >= Get(cache, k).usageCount

\* C35: in every reachable state every entry in the cache has a success rate
\* of at least 0.3: a new entry starts at 1.0, and an update that takes the
\* rate below 0.3 removes the entry in the same call.
C35_RateAtLeastThreshold ==
  /\ \A i \in 1..Len(cache) : cache[i].successRate >= DeleteBelow
  /\ \A a \in CacheableCalls :
       LET c1 == store(cache, a[1], a[3], a[2], now)
       IN Has(c1, CallKey(a)) => Get(c1, CallKey(a)).successRate = InitialRate
  /\ \A i \in 1..Len(cache) :
       (cache[i].successRate - FailureStep < DeleteBelow)
         => ~Has(updateSuccessRate(cache, cache[i].cacheKey, FALSE),
                 cache[i].cacheKey)

\* an entry has come down to the rate 0.4: one more failure removes it
C35_Witness ==
  \E i \in 1..Len(cache) :
    /\ cache[i].successRate = DeleteBelow + 1
    /\ ~Has(updateSuccessRate(cache, cache[i].cacheKey, FALSE), cache[i].cacheKey)

\* C36: a store whose key is already in the cache (an overwrite) removes no
\* other entry, even when the cache is at capacity: after it every other key
\* is still present and the size is unchanged.
C36_OverwriteEvictsNothing ==
  \A a \in CacheableCalls :
    (config.strategy # "none" /\ Has(cache, CallKey(a)))
      => LET c1 == store(cache, a[1], a[3], a[2], now)
         IN Keys(c1) = Keys(cache) /\ Len(c1) = Len(cache)

(* ----------------------------- similar plans -------------------------- *)
\* C33: the similar plans handed to plan generation are at most three, all
\* taken from cache entries with the requested intent label and a score
\* strictly above 0.5; and an entry stored in the time-of-day bucket of the
\* snapshot scores 0.3 higher than it does for a snapshot of another bucket.
C33_SimilarPlansScored ==
  \A intent \in CacheIntents, confidence \in {5, 9}, s \in Snapshots :
    LET plans == findSimilarPlans(cache, intent, confidence, s)
    IN /\ Len(plans) <= 3
       /\ \A i \in 1..Len(plans) :
            \E j \in 1..Len(cache) :
              /\ cache[j].plan = plans[i]
              /\ cache[j].intent = intent
              /\ SimilarScore(cache[j], confidence, s.timeOfDay) > 500
       /\ \A j \in 1..Len(cache), other \in Snapshots :
            (/\ FingerprintBucket(cache[j].contextHash) = s.timeOfDay
             /\ FingerprintBucket(cache[j].contextHash) # other.timeOfDay)
              => SimilarScore(cache[j], confidence, s.timeOfDay)
                   = SimilarScore(cache[j], confidence, other.timeOfDay) + 300

(* ------------------------- per-step outcomes --------------------------- *)
\* C34: for every run of executePlan with a controller, the result holds
\* exactly one per-step outcome for each dispatched step, and each outcome's
\* stepIndex (and, for a success, its entity id and description) identifies
\* the dispatched step it belongs to, also when failures and successes mix.
C34_OutcomePerDispatchedStep ==
  \A r \in Runs :
    (runs[r].pc = "execute" /\ services.ha)
      => LET ex == executableSteps(runs[r].plan[1])
         IN \A failing \in SUBSET (1..Len(ex)) :
              LET out == executePlan(runs[r].plan[1], TRUE, failing).steps
              IN /\ Len(out) = Len(ex)
                 /\ \A k \in 1..Len(ex) :
                      \E i \in 1..Len(out) :
                        /\ out[i].stepIndex = k - 1
                        /\ out[i].success = (k \notin failing)
                        /\ out[i].entityId = ex[k].entityId
                        /\ out[i].success => out[i].description = ex[k].description
                        /\ \A j \in 1..Len(out) :
                             out[j].stepIndex = k - 1 => j = i

(* ---------------------------- rate limiter ----------------------------- *)
\* the addresses requests come from
Addresses == {"10.0.0.1", "10.0.0.2"}

\* the arguments the middleware is made with: requests a window, and the
\* window in seconds
Limits == 0..2

Windows == {1, 60}

\* Date.now() is in milliseconds since 1970; the model counts whole seconds,
\* from a first reading in November 2023
EpochSeconds == 1700000000

MsPerSecond == 1000

DateNow == EpochSeconds + now

\* `timestamp < windowStart` of the cleaning loop, for a Map value in
\* milliseconds and a window start in whole seconds
OlderThan(value, windowStart) == value \div MsPerSecond < windowStart

\* one request through the middleware: the Map after it, the count it read,
\* and whether next() was called
rateLimitMiddleware(counts, ip, limit, window, at) ==
  LET windowStart == at - window
      keep == {k \in DOMAIN counts : ~OlderThan(counts[k], windowStart)}
      count == IF ip \in keep THEN counts[ip] ELSE 0
  IN IF count >= limit
       THEN [counts |-> [k \in keep |-> counts[k]], count |-> count,
             status |-> 429, passed |-> FALSE]
       ELSE [counts |-> [k \in keep \cup {ip} |->
                           IF k = ip THEN count + 1 ELSE counts[k]],
             count |-> count, status |-> 200, passed |-> TRUE]

InitLimit ==
  /\ InitCache
  /\ config = [strategy |-> "none", ttl |-> 0, maxSize |-> 0]
  /\ jsonDigests = {}

\* rateLimitMiddleware(limit, windowMs) is called once, before any request
MakeLimiter ==
  /\ handled = <<>>
  /\ requestCounts = <<>>
  /\ limiter = [limit |-> 10, window |-> 60]
  /\ \E l \in Limits, w \in Windows : limiter' = [limit |-> l, window |-> w]
  /\ UNCHANGED <<requestCounts, handled, cacheVars, refineVars, pipeVars, keyVars>>

Request(ip) ==
  /\ Len(handled) < MaxRequests
  /\ LET res == rateLimitMiddleware(requestCounts, ip, limiter.limit,
                                    limiter.window, DateNow)
     IN /\ requestCounts' = res.counts
        /\ handled' = Append(handled, [ip |-> ip, at |-> DateNow,
                                       count |-> res.count,
                                       status |-> res.status,
                                       passed |-> res.passed])
  /\ UNCHANGED <<limiter, cacheVars, refineVars, pipeVars, keyVars>>

NextLimit ==
  \/ MakeLimiter
  \/ \E ip \in Addresses : Request(ip)
  \/ Tick

SpecLimit == InitLimit /\ [][NextLimit]_vars

\* the requests of one address admitted at one clock reading, among the
\* first n handled
AdmittedAt(ip, at, n) ==
  {j \in 1..n : handled[j].ip = ip /\ handled[j].at = at /\ handled[j].passed}

\* C39: once an address has had `limit` requests admitted in a window, every
\* further request of it in that window is answered 429 and not passed on
\* (requests handled at one clock reading lie in one window however windows
\* are cut), and a request is admitted only while the count read is below
\* the limit.
C39_LimitEnforced ==
  \A i \in 1..Len(handled) :
    /\ handled[i].passed <=> handled[i].count < limiter.limit
    /\ handled[i].passed <=> handled[i].status # 429
    /\ Cardinality(AdmittedAt(handled[i].ip, handled[i].at, i - 1)) >= limiter.limit
         => ~handled[i].passed

(* ------------------- two calls of processUserIntent -------------------- *)
\* two requests are served at a time, on one orchestrator and one cache: a
\* call runs up to its next await, then either call goes on
InitDuo ==
  /\ config \in {c \in Configs : c.strategy = "context_aware"}
  /\ jsonDigests = {}
  /\ cache = <<>>
  /\ now = 0
  /\ refined = PlanStatus
  /\ refineContext = SnapNightNone
  /\ refineCount = 0
  /\ services = [llm |-> TRUE, ha |-> TRUE]
  /\ world = SnapEveningOn
  /\ runs = <<IdleRun, IdleRun>>
  /\ stats = ZeroStats
  /\ served = NotServed
  /\ pair = <<SnapNightNone, SnapNightNone>>
  /\ LimiterIdle

NextDuo ==
  \/ \E r \in Runs : Begin(r)
  \/ \E r \in Runs : ResolveIntent(r)
  \/ \E r \in Runs : TakeSnapshot(r)
  \/ \E r \in Runs : PlanQuery(r)
  \/ \E r \in Runs : Validate(r)
  \/ \E r \in Runs : Generate(r)
  \/ \E r \in Runs : StorePlan(r)
  \/ \E r \in Runs : Execute(r)
  \/ \E r \in Runs : Feedback(r)

SpecDuo == InitDuo /\ [][NextDuo]_vars

\* the call r comes back from the cache query with the entry under key
HitStep(r, key) ==
  /\ runs[r].pc = "plan"
  /\ runs'[r].pc = "validate"
  /\ runs'[r].hitKey = key

\* C31: interleaved runs on one shared cache lose no update: every hit on an
\* entry adds exactly one to its usage counter and no other step of a run
\* changes the counter of an entry that stays, so that after N hits it has
\* grown by exactly N; and the cache never holds more entries than its
\* capacity, in any intermediate state.
C31_NoLostUpdate ==
  /\ [](Len(cache) <= config.maxSize)
  /\ [][\A k \in Keys(cache) \cap Keys(cache') :
          Get(cache', k).usageCount =
            Get(cache, k).usageCount
              + Cardinality({r \in Runs : HitStep(r, k)})]_vars

\* the first two requests are in flight together, with the same intent and
\* identical snapshots, and the planner has returned to both
BothPlanned ==
  /\ stats.totalRequests = 2
  /\ \A r \in Runs : runs[r].pc \in {"execute", "feedback"}
  /\ runs[1].intent = runs[2].intent
  /\ runs[1].context = runs[2].context

\* C37: when two concurrent runs with the same intent and identical snapshots
\* start on an empty cache, the generator is invoked at most once, and the
\* cache ends with one entry, holding the plan both runs returned.
C37_ConcurrentMissesCoalesce ==
  BothPlanned
    => /\ ~(runs[1].generated /\ runs[2].generated)
       /\ runs[1].plan = runs[2].plan
       /\ runs[1].plan[1].cacheable
            => /\ Len(cache) = 1
               /\ cache[1].plan = runs[1].plan[1]

(* ----------------------------- statistics ------------------------------ *)
\* Orchestrator.resetStats, called while requests may be in flight (while no
\* entry has been used more than MaxUsage times)
ResetStats ==
  /\ stats # ZeroStats
  /\ \A i \in 1..Len(cache) : cache[i].usageCount <= MaxUsage
  /\ stats' = ZeroStats
  /\ UNCHANGED <<cache, world, runs, served>>
  /\ PipeFrame

NextStats ==
  \/ NextDuo
  \/ ResetStats

SpecStats == InitDuo /\ [][NextStats]_vars

\* C38: in every reachable state, with requests interleaved, requests that
\* fail in the middle of the pipeline and resetStats called while requests
\* are in flight, successCount + errorCount <= totalRequests and
\* cacheHits <= totalRequests.
C38_CountersWithinTotal ==
  /\ stats.successCount + stats.errorCount <= stats.totalRequests
  /\ stats.cacheHits <= stats.totalRequests

====
